---- MODULE Spec2Model ----
(***************************************************************************)
(* A model of src/main.py, the exponential file generator: the main loop   *)
(* (main), the chunked file writer (create_file), the size formatter       *)
(* (format_size) and the file-name format.                                 *)
(*                                                                         *)
(* Python integers are unbounded, so no width is modelled for the          *)
(* counters.  A KeyboardInterrupt is asynchronous: Python raises it        *)
(* between any two bytecodes of the main thread, so the model lets it      *)
(* arrive at every program point inside the try block.                     *)
(***************************************************************************)
EXTENDS Integers, Sequences, FiniteSets, TLC

VARIABLES
    pc,           \* program point ("L60", "L65", ... are lines of src/main.py)
    batch,        \* main: batch
    num_files,    \* main: num_files
    file_size,    \* main: file_size
    total_files,  \* main: total_files
    total_size,   \* main: total_size (0 before its first assignment)
    it,           \* main: next value of the iterator of range(num_files)
    handler,      \* main: the except clause that ran ("none" while running)
    stdout,       \* the lines printed inside the try block and the handlers
    exit_status,  \* {} while the process runs, {code} once it has exited
    disk,         \* path -> length in bytes of the file at that path
    caller,       \* who called create_file: "main" or "direct"
    filepath,     \* create_file: filepath
    size_bytes,   \* create_file: size_bytes
    chunk_size,   \* create_file: chunk_size
    remaining,    \* create_file: remaining
    writes,       \* the write sizes of the current create_file call, in order
    calls,        \* every create_file call main made so far, in order
    fs_in,        \* format_size: its argument, as base-1024 limbs
    fs_out,       \* format_size: its return value
    nm_in,        \* the file-name format: two (batch, index) pairs
    nm_out        \* the file-name format: the two names built

mainVars == <<batch, num_files, file_size, total_files, total_size, it,
              handler, stdout, exit_status>>
cfVars == <<caller, filepath, size_bytes, chunk_size, remaining, writes>>
fsVars == <<fs_in, fs_out>>
nmVars == <<nm_in, nm_out>>
vars == <<pc, mainVars, disk, cfVars, calls, fsVars, nmVars>>

(***************************************************************************)
(* Configuration (src/main.py, lines 13-16) and the chunk of create_file.  *)
(***************************************************************************)
INITIAL_FILES == 5
INITIAL_FILE_SIZE == 1024
OUTPUT_DIR == "generated_files"
CHUNK == 1024 * 1024
KIB == 1024

(***************************************************************************)
(* Bounds of the model.                                                    *)
(***************************************************************************)
MaxBatch == 3
MaxChunks == 2

Min(a, b) == IF a < b THEN a ELSE b

(***************************************************************************)
(* Decimal formatting, as Python's format specs do it: ":04d" and ":06d"   *)
(* pad with zeros up to a MINIMUM width and never truncate.                *)
(***************************************************************************)
Digit(d) == <<"0", "1", "2", "3", "4", "5", "6", "7", "8", "9">>[d + 1]

RECURSIVE DecStr(_)
DecStr(n) == IF n < 10 THEN Digit(n) ELSE DecStr(n \div 10) \o Digit(n % 10)

RECURSIVE Zeros(_)
Zeros(k) == IF k <= 0 THEN "" ELSE "0" \o Zeros(k - 1)

\* A fixed-width field that keeps only the last w digits.
ZeroPadFixedWidth(n, w) ==
    LET s == DecStr(n % (10 ^ w)) IN Zeros(w - Len(s)) \o s

ZeroPad(n, w) == LET s == DecStr(n) IN Zeros(w - Len(s)) \o s

\* src/main.py, line 66.
Filename(b, i) ==
    "batch_" \o ZeroPad(b, 4) \o "_file_" \o ZeroPad(i, 6) \o ".dat"

\* src/main.py, line 67: os.path.join(OUTPUT_DIR, filename).
Filepath(b, i) == OUTPUT_DIR \o "/" \o Filename(b, i)

(***************************************************************************)
(* Unbounded naturals as little-endian sequences of base-1024 limbs, so    *)
(* that sizes beyond TLC's 32-bit integers (GB, TB, PB) can be formatted.  *)
(***************************************************************************)
RECURSIVE ToLimbs(_)
ToLimbs(n) == IF n < KIB THEN <<n>> ELSE <<n % KIB>> \o ToLimbs(n \div KIB)

Limb(m, i) == IF i >= 1 /\ i <= Len(m) THEN m[i] ELSE 0

RECURSIVE MulCarry(_, _, _)
MulCarry(m, c, carry) ==
    IF m = <<>>
    THEN IF carry = 0 THEN <<>> ELSE ToLimbs(carry)
    ELSE LET t == Head(m) * c + carry
         IN  <<t % KIB>> \o MulCarry(Tail(m), c, t \div KIB)

\* m * c, for a small factor c.
BigMul(m, c) == MulCarry(m, c, 0)

(***************************************************************************)
(* format_size (src/main.py, lines 30-36).  bytes_size is a float after    *)
(* the first division; it is modelled exactly as the pair (m, e) standing  *)
(* for m / 1024^e.  Division of a double by 1024.0 only changes the        *)
(* exponent, so the pair is the float's exact value as long as the         *)
(* argument is below 2^53 (the inputs of FormatInputs are).                *)
(***************************************************************************)
Units == <<"B", "KB", "MB", "GB", "TB">>

\* A comparison that lets exactly 1024 through.
Lt1024OffByOne(x) ==
    \/ \A i \in DOMAIN x.m : i > x.e + 1 => x.m[i] = 0
    \/ /\ Limb(x.m, x.e + 2) = 1
       /\ \A i \in DOMAIN x.m : i # x.e + 2 => x.m[i] = 0

\* bytes_size < 1024.0 (line 33).
Lt1024(x) == \A i \in DOMAIN x.m : i > x.e + 1 => x.m[i] = 0

\* bytes_size /= 1024.0 (line 35).
Div1024(x) == [x EXCEPT !.e = @ + 1]

RECURSIVE IntPartFrom(_, _)
IntPartFrom(m, i) ==
    IF i > Len(m) THEN 0 ELSE m[i] + KIB * IntPartFrom(m, i + 1)

\* floor(m / 1024^e).
IntPart(x) == IntPartFrom(x.m, x.e + 1)

\* The value in hundredths, rounded as Python's ".2f" rounds a double: to the
\* nearest hundredth of the exact value, an exact tie going to the even digit.
Hundredths(x) ==
    LET frac == [i \in 1..x.e |-> Limb(x.m, i)]
        p    == BigMul(frac, 100)
        q    == Limb(p, x.e + 1)
        top  == Limb(p, x.e)
        low  == \E i \in 1..(x.e - 1) : Limb(p, i) # 0
        up   == /\ x.e >= 1
                /\ \/ top > KIB \div 2
                   \/ top = KIB \div 2 /\ (low \/ q % 2 = 1)
    IN  100 * IntPart(x) + q + (IF up THEN 1 ELSE 0)

\* The text of a count of hundredths: "W.hh".
TwoDecimals(h) ==
    DecStr(h \div 100) \o "." \o Digit((h % 100) \div 10) \o Digit(h % 10)

\* f"{bytes_size:.2f} {unit}" (lines 34 and 36).
Fmt(x, unit) == TwoDecimals(Hundredths(x)) \o " " \o unit

RECURSIVE format_loop(_, _)
format_loop(x, u) ==
    IF u > Len(Units) THEN Fmt(x, "PB")
    ELSE IF Lt1024(x) THEN Fmt(x, Units[u])
    ELSE format_loop(Div1024(x), u + 1)

\* format_size(bytes_size), the argument given as limbs.
format_size(m) == format_loop([m |-> m, e |-> 0], 1)

(***************************************************************************)
(* The file system: open(filepath, 'wb') creates the file or truncates it  *)
(* to length 0; f.write appends.                                           *)
(***************************************************************************)
NoFiles == [p \in {} |-> 0]

\* open(filepath, 'ab'): an existing file keeps its content.
OpenAppend(d, p) == [q \in DOMAIN d \cup {p} |-> IF q \in DOMAIN d THEN d[q] ELSE 0]

\* open(filepath, 'wb') (line 20).
Truncate(d, p) == [q \in DOMAIN d \cup {p} |-> IF q = p THEN 0 ELSE d[q]]

FileAppend(d, p, n) == [d EXCEPT ![p] = @ + n]

Length(d, p) == IF p \in DOMAIN d THEN d[p] ELSE 0

(***************************************************************************)
(* create_file (src/main.py, lines 18-28).                                 *)
(***************************************************************************)
InCreateFile == pc \in {"L20", "L25"}

\* Lines 20-23: open the file, set chunk_size and remaining.
Open ==
    /\ pc = "L20"
    /\ disk' = Truncate(disk, filepath)
    /\ chunk_size' = Min(size_bytes, CHUNK)
    /\ remaining' = size_bytes
    /\ writes' = <<>>
    /\ pc' = "L25"
    /\ UNCHANGED <<mainVars, caller, filepath, size_bytes, calls, fsVars, nmVars>>

\* A write of a whole chunk whatever is left.
WriteSizeNoMin == chunk_size

\* Line 26.
WriteSize == Min(chunk_size, remaining)

\* Lines 25-28: one iteration of the chunk loop.
WriteChunk ==
    /\ pc = "L25"
    /\ remaining > 0
    /\ disk' = FileAppend(disk, filepath, WriteSize)
    /\ remaining' = remaining - WriteSize
    /\ writes' = Append(writes, WriteSize)
    /\ UNCHANGED <<pc, mainVars, caller, filepath, size_bytes, chunk_size,
                   calls, fsVars, nmVars>>

\* Line 25, the loop's exit: the with block closes the file and the call
\* returns to its caller.
Return ==
    /\ pc = "L25"
    /\ ~(remaining > 0)
    /\ pc' = IF caller = "main" THEN "L65" ELSE "returned"
    /\ calls' = IF caller = "main"
                THEN [calls EXCEPT ![Len(calls)].returned = TRUE]
                ELSE calls
    /\ UNCHANGED <<mainVars, disk, cfVars, fsVars, nmVars>>

\* An I/O error of open, write or close (disk full, permission denied, ...)
\* in a direct call: the OSError leaves create_file.
Raise ==
    /\ InCreateFile
    /\ caller = "direct"
    /\ pc' = "raised"
    /\ UNCHANGED <<mainVars, disk, cfVars, calls, fsVars, nmVars>>

(***************************************************************************)
(* main (src/main.py, lines 38-92).  Program points are named by the line  *)
(* about to run.                                                           *)
(***************************************************************************)
InTry == pc \in {"L60", "L65", "L20", "L25", "L70", "L79", "L83"}

\* Lines 59-63: the next iteration of `while True` starts.
BatchStart ==
    /\ pc = "L60"
    /\ batch < MaxBatch
    /\ batch' = batch + 1
    /\ stdout' = Append(stdout, [kind |-> "batch", batch |-> batch + 1,
                                 num_files |-> num_files,
                                 size |-> format_size(ToLimbs(file_size))])
    /\ it' = 0   \* range(num_files) of line 65 starts at 0
    /\ pc' = "L65"
    /\ UNCHANGED <<num_files, file_size, total_files, total_size, handler,
                   exit_status, disk, cfVars, calls, fsVars, nmVars>>

\* Lines 65-68: range(num_files) yields the next i and create_file is called.
ForNext ==
    /\ pc = "L65"
    /\ it < num_files
    /\ it' = it + 1
    /\ caller' = "main"
    /\ filepath' = Filepath(batch, it)
    /\ size_bytes' = file_size
    /\ calls' = Append(calls, [batch |-> batch, index |-> it,
                               path |-> Filepath(batch, it),
                               size |-> file_size, of |-> num_files,
                               returned |-> FALSE])
    /\ pc' = "L20"
    /\ UNCHANGED <<batch, num_files, file_size, total_files, total_size,
                   handler, stdout, exit_status, disk, chunk_size, remaining,
                   writes, fsVars, nmVars>>

\* Line 65: range(num_files) is exhausted.
ForExit ==
    /\ pc = "L65"
    /\ ~(it < num_files)
    /\ pc' = "L70"
    /\ UNCHANGED <<mainVars, disk, cfVars, calls, fsVars, nmVars>>

\* total_files = num_files: an assignment in place of the += of line 71.
AccountAssign ==
    /\ pc = "L70"
    /\ total_files' = num_files
    /\ total_size' = total_files' * file_size
    /\ stdout' = Append(stdout, [kind |-> "total", created |-> num_files,
                                 total_files |-> total_files',
                                 total_size |-> format_size(ToLimbs(total_size'))])
    /\ pc' = "L79"
    /\ UNCHANGED <<batch, num_files, file_size, it, handler, exit_status,
                   disk, cfVars, calls, fsVars, nmVars>>

\* Lines 70-76: the batch is accounted for and reported.
Account ==
    /\ pc = "L70"
    /\ total_files' = total_files + num_files
    /\ total_size' = total_files' * file_size
    /\ stdout' = Append(stdout, [kind |-> "total", created |-> num_files,
                                 total_files |-> total_files',
                                 total_size |-> format_size(ToLimbs(total_size'))])
    /\ pc' = "L79"
    /\ UNCHANGED <<batch, num_files, file_size, it, handler, exit_status,
                   disk, cfVars, calls, fsVars, nmVars>>

\* Only num_files is doubled.
GrowFilesOnly ==
    /\ pc = "L79"
    /\ num_files' = num_files * 2
    /\ pc' = "L83"
    /\ UNCHANGED <<batch, file_size, total_files, total_size, it, handler,
                   stdout, exit_status, disk, cfVars, calls, fsVars, nmVars>>

\* Lines 79-80: double for the next iteration.
Grow ==
    /\ pc = "L79"
    /\ num_files' = num_files * 2
    /\ file_size' = file_size * 2
    /\ pc' = "L83"
    /\ UNCHANGED <<batch, total_files, total_size, it, handler, stdout,
                   exit_status, disk, cfVars, calls, fsVars, nmVars>>

\* Line 83: time.sleep(DELAY_SECONDS) returns.
Sleep ==
    /\ pc = "L83"
    /\ pc' = "L60"
    /\ UNCHANGED <<mainVars, disk, cfVars, calls, fsVars, nmVars>>

\* Lines 85-89: Ctrl+C arrives somewhere inside the try block (the with
\* block of a create_file call in progress closes its file on the way out);
\* the handler prints the final statistics, main returns and the process
\* exits with status 0.
KeyboardInterrupt ==
    /\ InTry
    /\ handler' = "KeyboardInterrupt"
    /\ stdout' = Append(stdout, [kind |-> "interrupt",
                                 total_files |-> total_files])
    /\ exit_status' = {0}
    /\ pc' = "STOPPED"
    /\ UNCHANGED <<batch, num_files, file_size, total_files, total_size, it,
                   disk, cfVars, calls, fsVars, nmVars>>

\* A handler that swallows the error and goes on with the next file.
ExceptionSkipFile ==
    /\ InCreateFile
    /\ caller = "main"
    /\ stdout' = Append(stdout, [kind |-> "error", batch |-> batch,
                                 total_files |-> total_files])
    /\ pc' = "L65"
    /\ UNCHANGED <<batch, num_files, file_size, total_files, total_size, it,
                   handler, exit_status, disk, cfVars, calls, fsVars, nmVars>>

\* Lines 90-92: open, write or close raises an OSError inside create_file;
\* it propagates to main's `except Exception`, which prints the error and
\* the statistics; main then returns and the process exits with status 0.
Exception ==
    /\ InCreateFile
    /\ caller = "main"
    /\ handler' = "Exception"
    /\ stdout' = Append(stdout, [kind |-> "error", batch |-> batch,
                                 total_files |-> total_files])
    /\ exit_status' = {0}
    /\ pc' = "STOPPED"
    /\ UNCHANGED <<batch, num_files, file_size, total_files, total_size, it,
                   disk, cfVars, calls, fsVars, nmVars>>

(***************************************************************************)
(* A run of main().  The output directory may hold a file of an earlier    *)
(* run (mkdir(exist_ok=True), line 40, keeps what is there).               *)
(***************************************************************************)
InitDisks == {NoFiles, Filepath(1, 0) :> 2 * INITIAL_FILE_SIZE}

Idle ==
    /\ caller = "main" /\ filepath = "" /\ size_bytes = 0
    /\ chunk_size = 0 /\ remaining = 0 /\ writes = <<>>

FsIdle == fs_in = <<0>> /\ fs_out = ""

NmIdle == nm_in = <<<<0, 0>>, <<0, 0>>>> /\ nm_out = <<"", "">>

\* Lines 53-56: the counters of a run before its first batch.
MainIdle ==
    /\ num_files = INITIAL_FILES /\ file_size = INITIAL_FILE_SIZE
    /\ batch = 0 /\ total_files = 0 /\ total_size = 0 /\ it = 0
    /\ handler = "none" /\ stdout = <<>> /\ exit_status = {}
    /\ calls = <<>>

Init ==
    /\ pc = "L60"
    /\ disk \in InitDisks
    /\ MainIdle /\ Idle /\ FsIdle /\ NmIdle

Next ==
    \/ BatchStart \/ ForNext \/ ForExit \/ Account \/ Grow \/ Sleep
    \/ Open \/ WriteChunk \/ Return
    \/ KeyboardInterrupt \/ Exception

Spec == Init /\ [][Next]_vars

(***************************************************************************)
(* create_file on its own: one call create_file(filepath, size_bytes) for  *)
(* sizes around the chunk boundaries, on a path that may already hold a    *)
(* file.                                                                   *)
(***************************************************************************)
CreateSizes ==
    {k * CHUNK + d : k \in 0..MaxChunks, d \in {0, 1, INITIAL_FILE_SIZE, CHUNK - 1}}

CreatePath == Filepath(1, 0)

CreateDisks == {NoFiles, CreatePath :> 2 * INITIAL_FILE_SIZE, CreatePath :> 3 * CHUNK}

InitCreate ==
    /\ pc = "L20"
    /\ caller = "direct"
    /\ filepath = CreatePath
    /\ size_bytes \in CreateSizes
    /\ disk \in CreateDisks
    /\ chunk_size = 0 /\ remaining = 0 /\ writes = <<>>
    /\ MainIdle /\ FsIdle /\ NmIdle

NextCreate == Open \/ WriteChunk \/ Return \/ Raise

SpecCreate == InitCreate /\ [][NextCreate]_vars

(***************************************************************************)
(* format_size on its own, for arguments below 2^53: up to five limbs, or  *)
(* six limbs with the top limb below 8.                                    *)
(***************************************************************************)
TopLimbs(len) == IF len = Len(Units) + 1 THEN {1, 7} ELSE {1, 7, 512, 1023}

InputsOfLen(len) ==
    IF len = 1
    THEN {<<t>> : t \in {0, 1, 512, 1023}}
    ELSE {[i \in 1..len |-> IF i = len THEN t
                            ELSE IF i = len - 1 THEN n
                            ELSE IF i = 1 THEN l ELSE 0] :
             t \in TopLimbs(len), n \in {0, 128, 512, 1023}, l \in {0, 1}}

FormatInputs == UNION {InputsOfLen(len) : len \in 1..(Len(Units) + 1)}

InitFormat ==
    /\ pc = "L30"
    /\ fs_in \in FormatInputs
    /\ fs_out = ""
    /\ disk = NoFiles
    /\ MainIdle /\ Idle /\ NmIdle

\* Lines 30-36: the call returns its string.
FormatSize ==
    /\ pc = "L30"
    /\ fs_out' = format_size(fs_in)
    /\ pc' = "formatted"
    /\ UNCHANGED <<mainVars, disk, cfVars, calls, fs_in, nmVars>>

NextFormat == FormatSize

SpecFormat == InitFormat /\ [][NextFormat]_vars

(***************************************************************************)
(* The file-name format on its own: the names of two (batch, index)        *)
(* pairs, below and beyond the padding widths.                             *)
(***************************************************************************)
NameBatches == {1, 2, 12, 9999, 10000, 10001, 100001}

NameIndexes == {0, 1, 3, 23, 999999, 1000000, 1000001}

NamePairs == NameBatches \X NameIndexes

InitName ==
    /\ pc = "L66"
    /\ nm_in \in NamePairs \X NamePairs
    /\ nm_out = <<"", "">>
    /\ disk = NoFiles
    /\ MainIdle /\ Idle /\ FsIdle

\* Lines 66-67, for both pairs.
BuildNames ==
    /\ pc = "L66"
    /\ nm_out' = <<Filepath(nm_in[1][1], nm_in[1][2]),
                   Filepath(nm_in[2][1], nm_in[2][2])>>
    /\ pc' = "named"
    /\ UNCHANGED <<mainVars, disk, cfVars, calls, fsVars, nm_in>>

NextName == BuildNames

SpecName == InitName /\ [][NextName]_vars

(***************************************************************************)
(* Vocabulary of the properties.                                           *)
(***************************************************************************)
RECURSIVE Pow2(_)
Pow2(n) == IF n = 0 THEN 1 ELSE 2 * Pow2(n - 1)

Last(s) == s[Len(s)]

RECURSIVE SumSeq(_)
SumSeq(q) == IF q = <<>> THEN 0 ELSE Head(q) + SumSeq(Tail(q))

\* num_files and file_size of batch b, as the doubling rule gives them.
FilesOfBatch(b) == INITIAL_FILES * Pow2(b - 1)
SizeOfBatch(b) == INITIAL_FILE_SIZE * Pow2(b - 1)

RECURSIVE FilesUpTo(_)
FilesUpTo(n) == IF n <= 0 THEN 0 ELSE FilesOfBatch(n) + FilesUpTo(n - 1)

CallsOf(b) == {k \in DOMAIN calls : calls[k].batch = b}

\* Call k has returned and its file is on disk with every byte asked for.
Complete(k) ==
    /\ calls[k].returned
    /\ calls[k].path \in DOMAIN disk
    /\ disk[calls[k].path] = calls[k].size

\* The file of call k is on disk with fewer bytes than the call asked for.
Partial(k) ==
    /\ calls[k].path \in DOMAIN disk
    /\ disk[calls[k].path] < calls[k].size

\* Every file of batch b has been written in full.
FullyWritten(b) ==
    \E k \in CallsOf(b) :
        Cardinality({j \in CallsOf(b) : Complete(j)}) = calls[k].of

\* The batches that have run line 71 (each prints one "total" line).
Accounted == Cardinality({k \in DOMAIN stdout : stdout[k].kind = "total"})

\* A create_file call has failed (each failure prints one "error" line).
Failed == \E k \in DOMAIN stdout : stdout[k].kind = "error"

InBatch == pc \in {"L65", "L20", "L25", "L70"}

\* The bytes the create_file calls made so far have asked for.
BytesWritten == SumSeq([k \in DOMAIN calls |-> calls[k].size])

(***************************************************************************)
(* C1.  In every batch N >= 1, from its start (batch just incremented, no  *)
(* file written yet) up to the doubling, num_files = INITIAL_FILES *       *)
(* 2^(N-1) and file_size = INITIAL_FILE_SIZE * 2^(N-1); every create_file  *)
(* call of batch N asks for exactly that size, and a batch whose loop has  *)
(* ended has made exactly that many calls, one per index 0..num_files-1.   *)
(***************************************************************************)
C1_BatchParameters ==
    /\ InBatch =>
          /\ batch >= 1
          /\ num_files = FilesOfBatch(batch)
          /\ file_size = SizeOfBatch(batch)
    /\ \A k \in DOMAIN calls :
          /\ calls[k].size = SizeOfBatch(calls[k].batch)
          /\ calls[k].of = FilesOfBatch(calls[k].batch)
    /\ \A b \in 1..batch :
          (b < batch \/ pc \in {"L70", "L79", "L83", "L60"}) =>
              /\ Cardinality(CallsOf(b)) = FilesOfBatch(b)
              /\ {calls[k].index : k \in CallsOf(b)} = 0..(FilesOfBatch(b) - 1)

C1_Witness ==
    /\ pc = "L70"
    /\ batch = 3
    /\ Cardinality(CallsOf(3)) = 4 * INITIAL_FILES
    /\ Last(calls).size = 4 * INITIAL_FILE_SIZE

(***************************************************************************)
(* C2, as claimed.  In every reachable state total_files is the sum of     *)
(* num_files over the batches whose files have all been written.           *)
(***************************************************************************)
C2_Original ==
    total_files = SumSeq([b \in 1..batch |->
                            IF FullyWritten(b) THEN FilesOfBatch(b) ELSE 0])

(***************************************************************************)
(* C2, amended.  total_files is the sum of num_files over the batches      *)
(* that have run line 71, which are batches 1..batch-1 or 1..batch; every  *)
(* batch counted is fully written (a batch in progress is never counted),  *)
(* the summary of an interrupt prints that total_files, and total_files    *)
(* never decreases.                                                        *)
(***************************************************************************)
C2_TotalInvariant ==
    /\ total_files = FilesUpTo(Accounted)
    /\ Accounted \in {batch - 1, batch}
    /\ InBatch => Accounted = batch - 1
    /\ \A b \in 1..Accounted : FullyWritten(b)
    /\ handler = "KeyboardInterrupt" =>
          /\ Last(stdout).kind = "interrupt"
          /\ Last(stdout).total_files = total_files

\* C2, amended: the invariant above in every state, and total_files never
\* decreases from one step to the next.
C2_TotalFiles == []C2_TotalInvariant /\ [][total_files' >= total_files]_vars

C2_Witness ==
    /\ handler = "KeyboardInterrupt"
    /\ batch = 3
    /\ \E k \in CallsOf(3) : Complete(k)
    /\ ~FullyWritten(3)
    /\ Last(stdout).total_files = 3 * INITIAL_FILES

(***************************************************************************)
(* C3.  After each completed batch the total size reported is the number   *)
(* of bytes written so far, the sum over the batches of files * size.      *)
(***************************************************************************)
C3_TotalSizeIsBytesWritten ==
    (stdout # <<>> /\ Last(stdout).kind = "total") =>
        /\ total_size = BytesWritten
        /\ Last(stdout).total_size = format_size(ToLimbs(BytesWritten))

(***************************************************************************)
(* C4.  A create_file(filepath, size_bytes) call with size_bytes >= 0      *)
(* that meets no I/O error returns after at most ceil(size_bytes / 1 MiB)  *)
(* writes and leaves a file of exactly size_bytes bytes, whatever the path *)
(* held before: in the chunk loop the length written plus remaining is     *)
(* size_bytes, remaining is never negative, every write is between 1 byte  *)
(* and 1 MiB, and size 0 gives an empty file.                              *)
(***************************************************************************)
C4_ExactLength ==
    /\ pc = "L25" =>
          /\ filepath \in DOMAIN disk
          /\ disk[filepath] + remaining = size_bytes
          /\ disk[filepath] = SumSeq(writes)
          /\ remaining >= 0
          /\ Len(writes) * CHUNK < size_bytes + CHUNK
          /\ ENABLED (WriteChunk \/ Return)
    /\ \A k \in DOMAIN writes : writes[k] >= 1 /\ writes[k] <= CHUNK
    /\ pc = "returned" =>
          /\ filepath \in DOMAIN disk
          /\ disk[filepath] = size_bytes
          /\ size_bytes = 0 => writes = <<>>

C4_Witness ==
    /\ pc = "returned"
    /\ size_bytes = CHUNK + 1
    /\ writes = <<CHUNK, 1>>
    /\ disk[filepath] = CHUNK + 1

(***************************************************************************)
(* C5.  A run stopped by an I/O error of create_file exits with a non-zero *)
(* status and a run stopped by an interrupt exits with status 0, so the    *)
(* exit status tells the two causes apart.                                 *)
(***************************************************************************)
C5_ErrorExitsNonZero ==
    /\ handler = "KeyboardInterrupt" => exit_status = {0}
    /\ handler = "Exception" =>
          /\ pc = "STOPPED"
          /\ exit_status # {}
          /\ 0 \notin exit_status

(***************************************************************************)
(* C6.  The batch count printed when the run stops on an error is the      *)
(* number of batches whose files were all written, and so agrees with the  *)
(* total_files printed on the same line.                                   *)
(***************************************************************************)
C6_ErrorReportsCompletedBatches ==
    handler = "Exception" =>
        /\ Last(stdout).kind = "error"
        /\ Last(stdout).batch = Cardinality({b \in 1..batch : FullyWritten(b)})
        /\ Last(stdout).total_files = FilesUpTo(Last(stdout).batch)

(***************************************************************************)
(* C7.  Once a create_file call has failed the run is over: main is in     *)
(* STOPPED through its `except Exception` clause and no step is possible   *)
(* any more (no retry, no next file, no later batch); the failed call is   *)
(* the last call made, the failing batch has not been added to total_files *)
(* and no doubling has been applied after it.                              *)
(***************************************************************************)
C7_FailureAbortsRun ==
    Failed =>
        /\ pc = "STOPPED"
        /\ handler = "Exception"
        /\ ~ENABLED Next
        /\ Cardinality({k \in DOMAIN stdout : stdout[k].kind = "error"}) = 1
        /\ Last(stdout).kind = "error"
        /\ Last(calls).batch = batch
        /\ ~Last(calls).returned
        /\ \A k \in DOMAIN calls : k < Len(calls) => calls[k].returned
        /\ total_files = FilesUpTo(batch - 1)
        /\ num_files = FilesOfBatch(batch)
        /\ file_size = SizeOfBatch(batch)

C7_Witness ==
    /\ Failed
    /\ batch = 2
    /\ Last(calls).index = 3
    /\ total_files = INITIAL_FILES

(***************************************************************************)
(* C8, as claimed.  When the interrupt handler has run, no file is left    *)
(* with fewer bytes than its create_file call asked for, and the summary   *)
(* is printed.                                                             *)
(***************************************************************************)
C8_Original ==
    handler = "KeyboardInterrupt" =>
        /\ pc = "STOPPED"
        /\ Last(stdout).kind = "interrupt"
        /\ \A k \in DOMAIN calls : ~Partial(k)

(***************************************************************************)
(* C8, amended.  The interrupt is acted on wherever it arrives in the try  *)
(* block, also inside a create_file call; when the handler has run, the    *)
(* run is STOPPED with the summary printed, and only the file of the last  *)
(* call made (the one that was in progress) can be incomplete: the file of *)
(* every earlier call has exactly the size asked for.                      *)
(***************************************************************************)
C8_OnlyLastFilePartial ==
    handler = "KeyboardInterrupt" =>
        /\ pc = "STOPPED"
        /\ ~ENABLED Next
        /\ Last(stdout).kind = "interrupt"
        /\ \A k \in DOMAIN calls : k < Len(calls) => Complete(k)

C8_Witness ==
    /\ handler = "KeyboardInterrupt"
    /\ pc = "STOPPED"
    /\ Len(calls) = INITIAL_FILES + 2
    /\ Partial(Len(calls))
    /\ Complete(Len(calls) - 1)

(***************************************************************************)
(* C9.  Two different (batch, index) pairs never give the same path, also  *)
(* when the batch number has more than 4 digits or the index more than 6.  *)
(***************************************************************************)
C9_UniqueNames ==
    (pc = "named" /\ nm_in[1] # nm_in[2]) => nm_out[1] # nm_out[2]

\* C9, within a run of main: no two create_file calls target the same path, so
\* no file of the run is opened (and truncated) a second time.
C9_RunPathsDistinct ==
    \A j, k \in DOMAIN calls : j # k => calls[j].path # calls[k].path

C9_Witness ==
    /\ pc = "named"
    /\ nm_in = <<<<10001, 1000001>>, <<1, 1>>>>
    /\ nm_out[1] = "generated_files/batch_10001_file_1000001.dat"
    /\ nm_out[2] = "generated_files/batch_0001_file_000001.dat"

(***************************************************************************)
(* Vocabulary of C10: exact comparisons of numbers given as limbs.         *)
(***************************************************************************)
AllUnits == Units \o <<"PB">>

\* m * 1024^k.
BigShift(m, k) == [i \in 1..(Len(m) + k) |-> IF i <= k THEN 0 ELSE m[i - k]]

RECURSIVE BigLeqFrom(_, _, _)
BigLeqFrom(a, b, i) ==
    IF i = 0 THEN TRUE
    ELSE IF Limb(a, i) # Limb(b, i) THEN Limb(a, i) < Limb(b, i)
    ELSE BigLeqFrom(a, b, i - 1)

\* a <= b.
BigLeq(a, b) == BigLeqFrom(a, b, IF Len(a) > Len(b) THEN Len(a) ELSE Len(b))

\* b < 1024^e.
LessPow(b, e) == \A i \in DOMAIN b : i > e => b[i] = 0

UnitIndex(b) ==
    CHOOSE k \in 0..Len(Units) :
        /\ k = Len(Units) \/ LessPow(b, k + 1)
        /\ \A j \in 0..(k - 1) : ~LessPow(b, j + 1)

\* |h/100 - b/1024^k| <= 1/200, as (2h-1) * 1024^k <= 200 b <= (2h+1) * 1024^k.
Nearest(b, k, h) ==
    /\ BigLeq(BigMul(b, 200), BigShift(ToLimbs(2 * h + 1), k))
    /\ h = 0 \/ BigLeq(BigShift(ToLimbs(2 * h - 1), k), BigMul(b, 200))

(***************************************************************************)
(* C10.  format_size(b) names the unit of the smallest k with              *)
(* b < 1024^(k+1) (B, KB, MB, GB, TB; PB for every b >= 1024^5) and shows  *)
(* b / 1024^k with two decimals, that is a number of hundredths h with     *)
(* |h/100 - b/1024^k| <= 1/200; format_size(0) = "0.00 B",                 *)
(* format_size(1024) = "1.00 KB", format_size(1536) = "1.50 KB" and        *)
(* format_size(1024*1024) = "1.00 MB".                                     *)
(***************************************************************************)
C10_FormatSize ==
    pc = "formatted" =>
        /\ LET k == UnitIndex(fs_in)
               w == IntPartFrom(fs_in, k + 1)
           IN  \E h \in (100 * w)..(100 * w + 100) :
                   /\ Nearest(fs_in, k, h)
                   /\ fs_out = TwoDecimals(h) \o " " \o AllUnits[k + 1]
        /\ fs_in = <<0>> => fs_out = "0.00 B"
        /\ fs_in = <<0, 1>> => fs_out = "1.00 KB"
        /\ fs_in = <<512, 1>> => fs_out = "1.50 KB"
        /\ fs_in = <<0, 0, 1>> => fs_out = "1.00 MB"

C10_Witness ==
    /\ pc = "formatted"
    /\ fs_in = <<0, 0, 0, 0, 512, 7>>
    /\ fs_out = "7.50 PB"

====
